---- MODULE Spec2Model ----
(***************************************************************************)
(* Traffic-score lookup engine of snow-space: SimpleBramptonTrafficScorer  *)
(* (traffic_scorer_simple.py) and BramptonTrafficScorer                    *)
(* (traffic_scorer.py).                                                    *)
(*                                                                         *)
(* Numbers.  Coordinates and distances are integers in units of 1e-6       *)
(* degree, so that the epsilon of the inverse-distance weights is 1 unit.  *)
(* Volumes are integers.  Scores and query results are exact rationals     *)
(* <<numerator, denominator>> in lowest terms.                             *)
(***************************************************************************)
EXTENDS Integers, Sequences, FiniteSets, TLC

\* ------------------------------------------------------------------------
\* Bounds of the model
\* ------------------------------------------------------------------------
MaxRecs == 6      \* longest observation source (records)
MaxRoads == 2     \* longest road-network source (segments)
MaxK == 3         \* largest k of a single query
MaxBatch == 2     \* longest coordinate list of a batch
MaxCalls == 3     \* most get_traffic_score calls of a recorded history
MaxRows == 3      \* most data rows of an input CSV

\* ------------------------------------------------------------------------
\* Program constants
\* ------------------------------------------------------------------------
Epsilon == 1                 \* 1e-6 degree, the guard added to each distance
DefaultK == 5                \* k=5
SimpleMaxDistance == 20000   \* max_distance=0.02 degree
HybridMaxDistance == 10000   \* max_distance=0.01 degree
DefaultRoadVolume == 5000    \* road_type_scores.get(highway_type, 5000)

\* ------------------------------------------------------------------------
\* Exact rationals
\* ------------------------------------------------------------------------
Abs(x) == IF x < 0 THEN -x ELSE x

Min(a, b) == IF a <= b THEN a ELSE b

RECURSIVE GCD(_, _)
GCD(a, b) == IF b = 0 THEN a ELSE GCD(b, a % b)

Rat(n, d) == LET g == GCD(Abs(n), d) IN <<n \div g, d \div g>>

\* a + b over the least common denominator
RAdd(a, b) ==
    LET g == GCD(a[2], b[2])
    IN  Rat(a[1] * (b[2] \div g) + b[1] * (a[2] \div g), (a[2] \div g) * b[2])

\* a * b, cancelling across before multiplying
RMul(a, b) ==
    LET g1 == GCD(Abs(a[1]), b[2])
        g2 == GCD(Abs(b[1]), a[2])
    IN  IF a[1] = 0 \/ b[1] = 0 THEN <<0, 1>>
        ELSE <<(a[1] \div g1) * (b[1] \div g2), (a[2] \div g2) * (b[2] \div g1)>>

\* a / b for b > 0
RDiv(a, b) == RMul(a, <<b[2], b[1]>>)

RLe(a, b) ==
    LET g == GCD(a[2], b[2])
    IN  a[1] * (b[2] \div g) <= b[1] * (a[2] \div g)

RLt(a, b) ==
    LET g == GCD(a[2], b[2])
    IN  a[1] * (b[2] \div g) < b[1] * (a[2] \div g)

RZero == <<0, 1>>

ROne == <<1, 1>>

\* Clip without the clamp: what C10 would face if np.clip were absent
ClipNone(x) == x

\* np.clip(x, 0, 1)
Clip(x) == IF RLt(x, RZero) THEN RZero ELSE IF RLt(ROne, x) THEN ROne ELSE x

RECURSIVE RSum(_)
RSum(s) == IF s = <<>> THEN RZero ELSE RAdd(Head(s), RSum(Tail(s)))

\* ------------------------------------------------------------------------
\* Optional values (a Python attribute that is None or holds an object)
\* ------------------------------------------------------------------------
NoneOpt == {}

Some(x) == {x}

Get(o) == CHOOSE x \in o : TRUE

\* ------------------------------------------------------------------------
\* Attribute values of a record: a number, None, a missing value (NaN) or a
\* non-numeric string
\* ------------------------------------------------------------------------
Num(v) == [t |-> "num", v |-> v]

VNone == [t |-> "none", v |-> 0]

VNaN == [t |-> "nan", v |-> 0]

VStr == [t |-> "str", v |-> 0]

\* year_fields = [f'YEAR{year}' for year in range(2024, 1999, -1)]
year_fields == <<
    "YEAR2024", "YEAR2023", "YEAR2022", "YEAR2021", "YEAR2020",
    "YEAR2019", "YEAR2018", "YEAR2017", "YEAR2016", "YEAR2015",
    "YEAR2014", "YEAR2013", "YEAR2012", "YEAR2011", "YEAR2010",
    "YEAR2009", "YEAR2008", "YEAR2007", "YEAR2006", "YEAR2005",
    "YEAR2004", "YEAR2003", "YEAR2002", "YEAR2001", "YEAR2000"
>>

\* the fallback list of common field names
fallback_fields == <<"AADT", "ADT", "Volume", "VOLUME", "Traffic_Volume", "Count">>

\* row[field]: a column the record has no value for holds a missing value
RowVal(row, field) ==
    IF field \in DOMAIN row.props THEN row.props[field] ELSE VNaN

\* The columns of the data frame: every attribute some record of it carries
Columns(gdf) == UNION {DOMAIN gdf[i].props : i \in DOMAIN gdf}

\* The loop over year_fields, from position n on, with the running volume
RECURSIVE ScanYears(_, _, _, _)
ScanYears(row, cols, n, volume) ==
    IF n > Len(year_fields) THEN volume
    ELSE LET field == year_fields[n]
             val == RowVal(row, field)
         IN  IF field \notin cols THEN ScanYears(row, cols, n + 1, volume)
             ELSE IF val.t \in {"nan", "none"}      \* pd.notna(val) is false
                  THEN ScanYears(row, cols, n + 1, volume)
             ELSE IF val.t = "str"                  \* float(val): ValueError
                  THEN ScanYears(row, cols, n + 1, volume)
             ELSE IF val.v > 0 THEN val             \* break
             ELSE ScanYears(row, cols, n + 1, val)  \* volume = float(val)

\* The loop over the fallback fields: float(row[field]) with no null check
RECURSIVE ScanFallback(_, _, _, _)
ScanFallback(row, cols, n, volume) ==
    IF n > Len(fallback_fields) THEN volume
    ELSE LET field == fallback_fields[n]
             val == RowVal(row, field)
         IN  IF field \notin cols THEN ScanFallback(row, cols, n + 1, volume)
             ELSE IF val.t \in {"none", "str"}      \* TypeError / ValueError
                  THEN ScanFallback(row, cols, n + 1, volume)
             ELSE IF val.t = "nan"                  \* volume = nan, not > 0
                  THEN ScanFallback(row, cols, n + 1, VNaN)
             ELSE IF val.v > 0 THEN val             \* break
             ELSE ScanFallback(row, cols, n + 1, val)

\* volume > 0 (false for None, which is never compared, and for nan)
Positive(volume) == volume.t = "num" /\ volume.v > 0

\* A resolution that turns to the fallback fields only when no yearly field
\* gave any number
ResolveVolumeBlocked(row, cols) ==
    LET y == ScanYears(row, cols, 1, VNone)
    IN  IF y.t = "none" THEN ScanFallback(row, cols, 1, y) ELSE y

\* The volume of one record
ResolveVolume(row, cols) ==
    LET y == ScanYears(row, cols, 1, VNone)
    IN  IF y.t = "none" \/ (y.t = "num" /\ y.v <= 0)
        THEN ScanFallback(row, cols, 1, y)
        ELSE y

\* ------------------------------------------------------------------------
\* Geometries: None, or [type, pts]; a Point has one coordinate, a line its
\* vertices.  Lines of the model are single segments, or multi-lines of
\* segments of equal length, so the centroid is the mean of the vertices.
\* ------------------------------------------------------------------------
NoGeom == [type |-> "None", pts |-> <<>>]

RECURSIVE SumX(_)
SumX(pts) == IF pts = <<>> THEN 0 ELSE Head(pts)[1] + SumX(Tail(pts))

RECURSIVE SumY(_)
SumY(pts) == IF pts = <<>> THEN 0 ELSE Head(pts)[2] + SumY(Tail(pts))

\* geom.centroid.coords[0]
Centroid(geom) ==
    <<SumX(geom.pts) \div Len(geom.pts), SumY(geom.pts) \div Len(geom.pts)>>

\* An extraction that takes the centroid of every geometry that is not a
\* Point
RowCoordsAnyGeometry(row) ==
    IF row.geometry.type = "None" THEN <<>>
    ELSE IF row.geometry.type = "Point" THEN <<row.geometry.pts[1]>>
    ELSE <<Centroid(row.geometry)>>

\* The coordinates a record contributes: <<>> when the record is skipped
RowCoords(row) ==
    IF row.geometry.type = "None" THEN <<>>
    ELSE IF row.geometry.type = "Point" THEN <<row.geometry.pts[1]>>
    ELSE IF row.geometry.type \in {"LineString", "MultiLineString"}
         THEN <<Centroid(row.geometry)>>
    ELSE <<>>

\* The extraction loop over gdf.iterrows(): the list of (coordinate, volume)
\* pairs, in source order
RECURSIVE ExtractFrom(_, _, _)
ExtractFrom(gdf, cols, n) ==
    IF n > Len(gdf) THEN <<>>
    ELSE LET row == gdf[n]
             coords == RowCoords(row)
             volume == ResolveVolume(row, cols)
         IN  IF coords # <<>> /\ Positive(volume)
             THEN <<[point |-> coords[1], volume |-> volume.v]>>
                      \o ExtractFrom(gdf, cols, n + 1)
             ELSE ExtractFrom(gdf, cols, n + 1)

Extract(gdf) == ExtractFrom(gdf, Columns(gdf), 1)

\* ------------------------------------------------------------------------
\* Road augmentation of the hybrid scorer
\* ------------------------------------------------------------------------
road_type_scores ==
    [motorway |-> 50000, trunk |-> 40000, primary |-> 30000,
     secondary |-> 20000, tertiary |-> 10000, residential |-> 2000,
     unclassified |-> 5000]

\* A classification that takes the last element of a list
HighwayTypeLast(road) ==
    IF road.highway = <<>> THEN "unclassified"
    ELSE road.highway[Len(road.highway)]

\* A road's highway attribute is a sequence of labels: <<>> when the
\* attribute is missing, one label for a plain value, several for a list
HighwayType(road) ==
    IF road.highway = <<>> THEN "unclassified" ELSE road.highway[1]

EstimatedTraffic(road) ==
    IF HighwayType(road) \in DOMAIN road_type_scores
    THEN road_type_scores[HighwayType(road)]
    ELSE DefaultRoadVolume

RECURSIVE RoadPairs(_)
RoadPairs(roads) ==
    IF roads = <<>> THEN <<>>
    ELSE <<[point |-> Centroid(Head(roads).geometry),
            volume |-> EstimatedTraffic(Head(roads))]>>
             \o RoadPairs(Tail(roads))

\* ------------------------------------------------------------------------
\* Normalizer
\* ------------------------------------------------------------------------
PointsOf(pairs) == [i \in 1..Len(pairs) |-> pairs[i].point]

VolumesOf(pairs) == [i \in 1..Len(pairs) |-> pairs[i].volume]

RECURSIVE Insert(_, _)
Insert(x, s) ==
    IF s = <<>> THEN <<x>>
    ELSE IF x <= Head(s) THEN <<x>> \o s
    ELSE <<Head(s)>> \o Insert(x, Tail(s))

RECURSIVE Sort(_)
Sort(s) == IF s = <<>> THEN <<>> ELSE Insert(Head(s), Sort(Tail(s)))

\* np.percentile(volumes, 95) of a non-empty array, linear interpolation at
\* the virtual index 0.95 * (n - 1)
Percentile95(volumes) ==
    LET sorted == Sort(volumes)
        n == Len(volumes)
        lo == (19 * (n - 1)) \div 20
        fr == (19 * (n - 1)) % 20
        hi == Min(lo + 1, n - 1)
    IN  Rat(20 * sorted[lo + 1] + fr * (sorted[hi + 1] - sorted[lo + 1]), 20)

\* A normalization that hands the scores back in ascending order of volume
NormalizeSorted(volumes) ==
    LET max_traffic == Percentile95(volumes)
        sorted == Sort(volumes)
    IN  [i \in 1..Len(volumes) |-> Clip(RDiv(<<sorted[i], 1>>, max_traffic))]

\* np.clip(traffic_volumes / max_traffic, 0, 1)
Normalize(volumes) ==
    LET max_traffic == Percentile95(volumes)
    IN  [i \in 1..Len(volumes) |-> Clip(RDiv(<<volumes[i], 1>>, max_traffic))]

\* ------------------------------------------------------------------------
\* Spatial index: cKDTree over the point array.  A tree is [data |-> points].
\* A query coordinate is [fin |-> finite?, p |-> <<lon, lat>>].
\* A distance is [inf |-> FALSE, v |-> d] or infinite.
\* ------------------------------------------------------------------------
DFin(v) == [inf |-> FALSE, v |-> v]

DInf == [inf |-> TRUE, v |-> 0]

Finite(p) == [fin |-> TRUE, p |-> p]

NonFinite == [fin |-> FALSE, p |-> <<0, 0>>]

RECURSIVE SqrtFrom(_, _)
SqrtFrom(n, r) == IF (r + 1) * (r + 1) > n THEN r ELSE SqrtFrom(n, r + 1)

\* The integer square root
ISqrt(n) == SqrtFrom(n, 0)

\* Euclidean distance over (lon, lat) as planar coordinates
Dist(a, b) ==
    ISqrt((a[1] - b[1]) * (a[1] - b[1]) + (a[2] - b[2]) * (a[2] - b[2]))

\* The distances of the indexed points to q, in index order
RECURSIVE Dists(_, _)
Dists(data, q) ==
    IF data = <<>> THEN <<>>
    ELSE <<Dist(Head(data), q)>> \o Dists(Tail(data), q)

\* Of the points idxs, the index with the least distance (ties: the lower
\* index first)
NearestOf(ds, idxs) ==
    CHOOSE i \in idxs :
        \A j \in idxs : ds[i] < ds[j] \/ (ds[i] = ds[j] /\ i <= j)

\* The k nearest of the points idxs, by ascending distance; a missing
\* neighbour has an infinite distance and the index n (here n + 1, indices
\* being 1-based)
RECURSIVE Nearest(_, _, _)
Nearest(ds, idxs, k) ==
    IF k = 0 THEN <<>>
    ELSE IF idxs = {}
    THEN <<[d |-> DInf, i |-> Len(ds) + 1]>> \o Nearest(ds, idxs, k - 1)
    ELSE LET i == NearestOf(ds, idxs)
         IN  <<[d |-> DFin(ds[i]), i |-> i]>> \o Nearest(ds, idxs \ {i}, k - 1)

\* kdtree.query(query_point, k=k) for k >= 2: k (distance, index) pairs
KnnQuery(tree, q, k) == Nearest(Dists(tree.data, q), 1..Len(tree.data), k)

\* What the query returns for a non-finite coordinate when the library does
\* not reject it: no neighbour is found
NoNeighbours(tree, k) == Nearest(Dists(tree.data, <<0, 0>>), {}, k)

\* distances[0] > max_distance
Exceeds(d, max_distance) == d.inf \/ d.v > max_distance

\* Uniform weights, in place of inverse-distance weights: every neighbour
\* found weighs the same
WeightUniform(d) == IF d.inf THEN RZero ELSE ROne

\* 1.0 / (distances + 1e-6)
Weight(d) == IF d.inf THEN RZero ELSE <<1, d.v + Epsilon>>

RECURSIVE Weights(_)
Weights(nb) ==
    IF nb = <<>> THEN <<>> ELSE <<Weight(Head(nb).d)>> \o Weights(Tail(nb))

\* Weights used as they are, without the division by their sum
ScaledRaw(w, total) == w

\* weights / np.sum(weights)
RECURSIVE Scaled(_, _)
Scaled(w, total) ==
    IF w = <<>> THEN <<>>
    ELSE <<RDiv(Head(w), total)>> \o Scaled(Tail(w), total)

\* self.traffic_scores[indices] * weights
RECURSIVE Products(_, _, _)
Products(scores, nb, w) ==
    IF nb = <<>> THEN <<>>
    ELSE <<RMul(scores[Head(nb).i], Head(w))>>
             \o Products(scores, Tail(nb), Tail(w))

\* np.sum(self.traffic_scores[indices] * weights), weights normalized
WeightedAverage(scores, nb) ==
    LET w == Weights(nb)
    IN  RSum(Products(scores, nb, Scaled(w, RSum(w))))

\* The neighbours within max_distance
RECURSIVE Within(_, _)
Within(nb, max_distance) ==
    IF nb = <<>> THEN <<>>
    ELSE IF Exceeds(Head(nb).d, max_distance) THEN Within(Tail(nb), max_distance)
    ELSE <<Head(nb)>> \o Within(Tail(nb), max_distance)

\* Interpolation over the neighbours within max_distance only: the reading
\* of the cutoff that C8 excludes
InterpolateFiltered(traffic_scores, nb, max_distance) ==
    IF Exceeds(nb[1].d, max_distance) THEN [status |-> "ok", value |-> RZero]
    ELSE IF traffic_scores = NoneOpt
    THEN [status |-> "TypeError", value |-> RZero]
    ELSE IF \E j \in 1..Len(nb) : nb[j].i > Len(Get(traffic_scores))
    THEN [status |-> "IndexError", value |-> RZero]
    ELSE [status |-> "ok",
          value |-> Clip(WeightedAverage(Get(traffic_scores),
                                         Within(nb, max_distance)))]

\* The statements of get_traffic_score after the query
Interpolate(traffic_scores, nb, max_distance) ==
    IF Exceeds(nb[1].d, max_distance) THEN [status |-> "ok", value |-> RZero]
    ELSE IF traffic_scores = NoneOpt
    THEN [status |-> "TypeError", value |-> RZero]
    ELSE IF \E j \in 1..Len(nb) : nb[j].i > Len(Get(traffic_scores))
    THEN [status |-> "IndexError", value |-> RZero]
    ELSE [status |-> "ok",
          value |-> Clip(WeightedAverage(Get(traffic_scores), nb))]

\* Outcome of a call: status is "ok" or the name of the exception raised
Ok(v) == [status |-> "ok", value |-> v]

Raise(e) == [status |-> e, value |-> RZero]

\* get_traffic_score(lon, lat, k, max_distance) on the fields kdtree and
\* traffic_scores; finiteChecked tells whether the installed cKDTree.query
\* rejects a non-finite coordinate
GetTrafficScore(kdtree, traffic_scores, finiteChecked, q, k, max_distance) ==
    IF kdtree = NoneOpt THEN Raise("RuntimeError")
    ELSE IF ~q.fin /\ finiteChecked THEN Raise("ValueError")
    ELSE IF k = 1 THEN Raise("IndexError")   \* query returns scalars: distances[0]
    ELSE IF q.fin
    THEN Interpolate(traffic_scores, KnnQuery(Get(kdtree), q.p, k), max_distance)
    ELSE Interpolate(traffic_scores, NoNeighbours(Get(kdtree), k), max_distance)

\* A batch whose scores come out in reverse input order
RECURSIVE BatchFromReversed(_, _, _, _, _, _, _)
BatchFromReversed(kdtree, traffic_scores, finiteChecked, coords, k, md, n) ==
    IF n > Len(coords) THEN [status |-> "ok", values |-> <<>>]
    ELSE LET r == GetTrafficScore(kdtree, traffic_scores, finiteChecked,
                                  coords[n], k, md)
             rest == BatchFromReversed(kdtree, traffic_scores, finiteChecked,
                                       coords, k, md, n + 1)
         IN  IF r.status # "ok" THEN [status |-> r.status, values |-> <<>>]
             ELSE IF rest.status # "ok" THEN rest
             ELSE [status |-> "ok", values |-> rest.values \o <<r.value>>]

\* batch_score(coordinates): the scores in input order, or the exception of
\* the first coordinate whose query raises
RECURSIVE BatchFrom(_, _, _, _, _, _, _)
BatchFrom(kdtree, traffic_scores, finiteChecked, coords, k, max_distance, n) ==
    IF n > Len(coords) THEN [status |-> "ok", values |-> <<>>]
    ELSE LET r == GetTrafficScore(kdtree, traffic_scores, finiteChecked,
                                  coords[n], k, max_distance)
             rest == BatchFrom(kdtree, traffic_scores, finiteChecked, coords,
                               k, max_distance, n + 1)
         IN  IF r.status # "ok" THEN [status |-> r.status, values |-> <<>>]
             ELSE IF rest.status # "ok" THEN rest
             ELSE [status |-> "ok", values |-> <<r.value>> \o rest.values]

\* A batch_score that hands its scores back in reverse input order
BatchScoreReversed(kdtree, traffic_scores, finiteChecked, coords, max_distance) ==
    BatchFromReversed(kdtree, traffic_scores, finiteChecked, coords, DefaultK,
                      max_distance, 1)

\* scorer.batch_score(coordinates) with the default k
BatchScore(kdtree, traffic_scores, finiteChecked, coords, max_distance) ==
    BatchFrom(kdtree, traffic_scores, finiteChecked, coords, DefaultK,
              max_distance, 1)

\* ------------------------------------------------------------------------
\* Files of data_dir.  A file is [kind, recs, latlon]: kind "absent", or
\* "geojson" / "csv" (recs: the records; latlon: the CSV has coordinate
\* columns), "pickle" (recs: the bytes written, as tokens) or "garbage".
\* ------------------------------------------------------------------------
Absent == [kind |-> "absent", recs |-> <<>>, latlon |-> FALSE]

Garbage == [kind |-> "garbage", recs |-> <<>>, latlon |-> FALSE]

GeoJson(recs) == [kind |-> "geojson", recs |-> recs, latlon |-> FALSE]

Csv(recs, latlon) == [kind |-> "csv", recs |-> recs, latlon |-> latlon]

PickleFile(bytes) == [kind |-> "pickle", recs |-> bytes, latlon |-> FALSE]

Exists(f) == f.kind # "absent"

Token(tag, val) == [tag |-> tag, val |-> val]

\* pickle.dump({'traffic_points':..., 'traffic_scores':..., 'kdtree':...}, f):
\* the byte stream, one token per framed item
Dump(points, scores, tree) ==
    << Token("PROTO", <<>>),
       Token("traffic_points", points),
       Token("traffic_scores", scores),
       Token("kdtree", tree.data),
       Token("STOP", <<>>) >>

\* pickle.load(f) succeeds on a complete stream only
Loadable(f) ==
    /\ f.kind = "pickle"
    /\ Len(f.recs) = 5
    /\ f.recs[1].tag = "PROTO"
    /\ f.recs[2].tag = "traffic_points"
    /\ f.recs[3].tag = "traffic_scores"
    /\ f.recs[4].tag = "kdtree"
    /\ f.recs[5].tag = "STOP"

\* A load that hands the scores back rotated by one position
LoadRotated(f) ==
    [traffic_points |-> f.recs[2].val,
     traffic_scores |-> IF f.recs[3].val = <<>> THEN <<>>
                        ELSE Tail(f.recs[3].val) \o <<Head(f.recs[3].val)>>,
     kdtree |-> [data |-> f.recs[4].val]]

\* The dict pickle.load returns
Load(f) ==
    [traffic_points |-> f.recs[2].val,
     traffic_scores |-> f.recs[3].val,
     kdtree |-> [data |-> f.recs[4].val]]

\* gpd.read_file(path) of a GeoJSON file
Readable(f) == f.kind = "geojson"

TRAFFIC_FILE == "brampton_traffic.geojson"

TEMP_FILE == "temp_traffic.geojson"

ROADS_CACHE == "brampton_roads.pkl"

SIMPLE_CACHE == "simple_scorer_cache.pkl"

HYBRID_CACHE == "scorer_cache.pkl"

manual_files == << "brampton_traffic.geojson", "brampton_traffic.csv",
                   "City_of_Brampton_Traffic_Volumes.geojson",
                   "City_of_Brampton_Traffic_Volumes.csv" >>

FileNames == {manual_files[i] : i \in 1..Len(manual_files)}
                 \cup {TEMP_FILE, ROADS_CACHE, SIMPLE_CACHE, HYBRID_CACHE}

IsCsvName(name) ==
    name \in {"brampton_traffic.csv", "City_of_Brampton_Traffic_Volumes.csv"}

\* ------------------------------------------------------------------------
\* download_traffic_data of the hybrid scorer.  Result: [ok, gdf, files].
\* net.direct and net.api are what the two download attempts return: a file
\* (Absent when the request fails, Garbage when the body does not parse).
\* ------------------------------------------------------------------------
\* One manual file: "return" with its records, or "next"
ManualFile(fs, name) ==
    LET f == fs[name]
    IN  IF ~Exists(f) THEN [act |-> "next", gdf |-> <<>>]
        ELSE IF IsCsvName(name)
             THEN IF f.kind = "csv" /\ f.latlon
                  THEN [act |-> "return", gdf |-> f.recs]
                  ELSE [act |-> "next", gdf |-> <<>>]
        ELSE IF Readable(f) THEN [act |-> "return", gdf |-> f.recs]
        ELSE [act |-> "next", gdf |-> <<>>]

\* A scan of the manual files that ends at the first file that exists,
\* whether or not it loads
RECURSIVE TryManualStopping(_, _)
TryManualStopping(fs, n) ==
    IF n > Len(manual_files) THEN [act |-> "next", gdf |-> <<>>]
    ELSE IF Exists(fs[manual_files[n]])
         THEN ManualFile(fs, manual_files[n])
         ELSE TryManualStopping(fs, n + 1)

RECURSIVE TryManual(_, _)
TryManual(fs, n) ==
    IF n > Len(manual_files) THEN [act |-> "next", gdf |-> <<>>]
    ELSE LET r == ManualFile(fs, manual_files[n])
         IN  IF r.act = "return" THEN r ELSE TryManual(fs, n + 1)

\* gdf.to_file(save_path, driver='GeoJSON'); return gdf
SaveDownload(fs, gdf) ==
    [ok |-> TRUE, gdf |-> gdf,
     files |-> [fs EXCEPT ![TRAFFIC_FILE] = GeoJson(gdf)]]

\* The 'api' attempt: the response text goes to the temp file, which is
\* parsed and then unlinked
ApiAttempt(fs, nt) ==
    IF ~Exists(nt.api)
    THEN [ok |-> FALSE, gdf |-> <<>>, files |-> fs]
    ELSE LET withTemp == [fs EXCEPT ![TEMP_FILE] = nt.api]
         IN  IF Readable(nt.api)
             THEN SaveDownload([withTemp EXCEPT ![TEMP_FILE] = Absent],
                               nt.api.recs)
             ELSE [ok |-> FALSE, gdf |-> <<>>, files |-> withTemp]

DownloadTrafficData(fs, nt) ==
    LET m == TryManual(fs, 1)
    IN  IF m.act = "return" THEN [ok |-> TRUE, gdf |-> m.gdf, files |-> fs]
        ELSE IF Readable(nt.direct) THEN SaveDownload(fs, nt.direct.recs)
        ELSE ApiAttempt(fs, nt)

\* download_road_network: the cached pickle when it exists, else the OSM
\* download, cached.  Result: [ok, roads, files].
DownloadRoadNetwork(fs, nt) ==
    IF Exists(fs[ROADS_CACHE])
    THEN IF fs[ROADS_CACHE].kind = "pickle"
         THEN [ok |-> TRUE, roads |-> fs[ROADS_CACHE].recs, files |-> fs]
         ELSE [ok |-> FALSE, roads |-> <<>>, files |-> fs]
    ELSE IF nt.osm.kind = "geojson"
         THEN [ok |-> TRUE, roads |-> nt.osm.recs,
               files |-> [fs EXCEPT ![ROADS_CACHE] = PickleFile(nt.osm.recs)]]
         ELSE [ok |-> FALSE, roads |-> <<>>, files |-> fs]

\* ------------------------------------------------------------------------
\* State
\* ------------------------------------------------------------------------
Instances == {"a", "b"}     \* scorer instances sharing one data_dir

VARIABLES
    variant,         \* "simple" or "hybrid": the scorer class in use
    finiteChecked,   \* the installed cKDTree.query rejects non-finite input
    files,           \* data_dir: file name -> file
    net,             \* what the remote sources answer: direct, api, osm
    pc,              \* per instance: "idle" or the position in prepare_data
    traffic_points,  \* per instance: self.traffic_points (optional)
    traffic_scores,  \* per instance: self.traffic_scores (optional)
    kdtree,          \* per instance: self.kdtree (optional)
    local,           \* per instance: locals of the running/last prepare_data
    prep,            \* per instance: outcome of the last prepare_data call
    ever_ok,         \* per instance: some prepare_data call returned normally
    last,            \* the most recent query call and its outcome, since
                     \* the last call of prepare_data
    calls,           \* the recorded history of get_traffic_score calls: the
                     \* arguments, the index state read, the outcome
    job              \* the running or last add_traffic_scores_to_csv call,
                     \* and the output CSV

vars == << variant, finiteChecked, files, net, pc, traffic_points,
           traffic_scores, kdtree, local, prep, ever_ok, last, calls, job >>

env == << variant, finiteChecked, net >>

\* cache_path = self.data_dir / "..."
CACHE_FILE == IF variant = "simple" THEN SIMPLE_CACHE ELSE HYBRID_CACHE

\* max_distance default of get_traffic_score
DefaultMaxDistance ==
    IF variant = "simple" THEN SimpleMaxDistance ELSE HybridMaxDistance

\* how: "cache" or "source"; observations: the pairs extracted from the
\* observation source; pairs: the whole pair list; cache: the loaded dict
NoLocal == [how |-> "none", observations |-> <<>>, pairs |-> <<>>,
            cache |-> <<>>]

\* The output CSV: header lines and data rows [coord, score]
NoOutput == [exists |-> FALSE, headers |-> 0, rows |-> <<>>]

\* No add_traffic_scores_to_csv call was made.  pc: "off", "prepare",
\* "loop", "done" or "raised"; at: the statement that raised
NoJob == [pc |-> "off", inst |-> "a", rows |-> <<>>, chunk_size |-> 1,
          total_rows |-> 0, first_chunk |-> TRUE, rows_processed |-> 0,
          pos |-> 0, output |-> NoOutput, error |-> "none", at |-> "none"]

NoCall == [inst |-> "a", op |-> "none", q |-> NonFinite, k |-> 0,
           max_distance |-> 0, coords |-> <<>>, status |-> "none",
           value |-> RZero, values |-> <<>>]

\* ------------------------------------------------------------------------
\* prepare_data, one action per statement that another instance or a reader
\* can observe
\* ------------------------------------------------------------------------
\* prepare_data raises e
Fail(i, e) ==
    /\ pc' = [pc EXCEPT ![i] = "idle"]
    /\ prep' = [prep EXCEPT ![i] = e]

\* prepare_data returns
Return(i) ==
    /\ pc' = [pc EXCEPT ![i] = "idle"]
    /\ prep' = [prep EXCEPT ![i] = "ok"]
    /\ ever_ok' = [ever_ok EXCEPT ![i] = TRUE]

\* A prepare_data that rebuilds from the source whether or not a cache exists
PrepareDataRebuild(i) ==
    /\ pc[i] = "idle"
    /\ pc' = [pc EXCEPT ![i] = "fetch"]
    /\ prep' = [prep EXCEPT ![i] = "running"]
    /\ local' = [local EXCEPT ![i] = NoLocal]
    /\ last' = NoCall
    /\ UNCHANGED << env, job, calls, files, traffic_points, traffic_scores, kdtree,
                    ever_ok >>

\* if cache_path.exists():
PrepareData(i) ==
    /\ pc[i] = "idle"
    /\ pc' = [pc EXCEPT ![i] =
                 IF Exists(files[CACHE_FILE]) THEN "load" ELSE "fetch"]
    /\ prep' = [prep EXCEPT ![i] = "running"]
    /\ local' = [local EXCEPT ![i] = NoLocal]
    /\ last' = NoCall
    /\ UNCHANGED << env, job, calls, files, traffic_points, traffic_scores, kdtree,
                    ever_ok >>

\* with open(cache_path, 'rb') as f: cache = pickle.load(f)
LoadCache(i) ==
    /\ pc[i] = "load"
    /\ IF ~Exists(files[CACHE_FILE])
       THEN Fail(i, "FileNotFoundError") /\ UNCHANGED << local, ever_ok >>
       ELSE IF ~Loadable(files[CACHE_FILE])
       THEN Fail(i, "UnpicklingError") /\ UNCHANGED << local, ever_ok >>
       ELSE /\ local' = [local EXCEPT ![i] =
                   [how |-> "cache", observations |-> <<>>, pairs |-> <<>>,
                    cache |-> <<Load(files[CACHE_FILE])>>]]
            /\ pc' = [pc EXCEPT ![i] = "load_points"]
            /\ UNCHANGED << prep, ever_ok >>
    /\ UNCHANGED << env, job, calls, files, traffic_points, traffic_scores, kdtree, last >>

\* self.traffic_points = cache['traffic_points']
LoadPoints(i) ==
    /\ pc[i] = "load_points"
    /\ traffic_points' = [traffic_points EXCEPT ![i] =
                             Some(local[i].cache[1].traffic_points)]
    /\ pc' = [pc EXCEPT ![i] = "load_scores"]
    /\ UNCHANGED << env, job, calls, files, traffic_scores, kdtree, local, prep,
                    ever_ok, last >>

\* self.traffic_scores = cache['traffic_scores']
LoadScores(i) ==
    /\ pc[i] = "load_scores"
    /\ traffic_scores' = [traffic_scores EXCEPT ![i] =
                             Some(local[i].cache[1].traffic_scores)]
    /\ pc' = [pc EXCEPT ![i] = "load_kdtree"]
    /\ UNCHANGED << env, job, calls, files, traffic_points, kdtree, local, prep,
                    ever_ok, last >>

\* self.kdtree = cache['kdtree']; return
LoadKdtree(i) ==
    /\ pc[i] = "load_kdtree"
    /\ kdtree' = [kdtree EXCEPT ![i] = Some(local[i].cache[1].kdtree)]
    /\ Return(i)
    /\ UNCHANGED << env, job, calls, files, traffic_points, traffic_scores, local, last >>

\* A fetch that takes a missing observation file for an empty one
FetchSimpleLenient(i) ==
    /\ pc[i] = "fetch"
    /\ variant = "simple"
    /\ local' = [local EXCEPT ![i] =
           [how |-> "source", cache |-> <<>>,
            observations |-> Extract(files[TRAFFIC_FILE].recs),
            pairs |-> Extract(files[TRAFFIC_FILE].recs)]]
    /\ pc' = [pc EXCEPT ![i] = "build_points"]
    /\ UNCHANGED << env, job, calls, files, traffic_points, traffic_scores, kdtree,
                    prep, ever_ok, last >>

\* The simple scorer's source: brampton_traffic.geojson, read and extracted
FetchSimple(i) ==
    /\ pc[i] = "fetch"
    /\ variant = "simple"
    /\ IF ~Exists(files[TRAFFIC_FILE])
       THEN Fail(i, "FileNotFoundError") /\ UNCHANGED local
       ELSE IF ~Readable(files[TRAFFIC_FILE])
       THEN Fail(i, "DataSourceError") /\ UNCHANGED local
       ELSE /\ local' = [local EXCEPT ![i] =
                   [how |-> "source", cache |-> <<>>,
                    observations |-> Extract(files[TRAFFIC_FILE].recs),
                    pairs |-> Extract(files[TRAFFIC_FILE].recs)]]
            /\ pc' = [pc EXCEPT ![i] = "build_points"]
            /\ UNCHANGED prep
    /\ UNCHANGED << env, job, calls, files, traffic_points, traffic_scores, kdtree,
                    ever_ok, last >>

\* The hybrid scorer's sources: download_traffic_data, download_road_network,
\* extraction of the observations, then one synthetic entry per road
FetchHybrid(i) ==
    /\ pc[i] = "fetch"
    /\ variant = "hybrid"
    /\ LET t == DownloadTrafficData(files, net)
           r == DownloadRoadNetwork(t.files, net)
       IN  IF ~t.ok
           THEN Fail(i, "Exception") /\ files' = t.files /\ UNCHANGED local
           ELSE IF ~r.ok
           THEN Fail(i, "Exception") /\ files' = r.files /\ UNCHANGED local
           ELSE /\ files' = r.files
                /\ local' = [local EXCEPT ![i] =
                       [how |-> "source", cache |-> <<>>,
                        observations |-> Extract(t.gdf),
                        pairs |-> Extract(t.gdf) \o RoadPairs(r.roads)]]
                /\ pc' = [pc EXCEPT ![i] = "build_points"]
                /\ UNCHANGED prep
    /\ UNCHANGED << env, job, calls, traffic_points, traffic_scores, kdtree, ever_ok, last >>

\* self.traffic_points = np.array(traffic_points_list); the simple scorer
\* then prints traffic_volumes.min(), which raises on an empty array
BuildPoints(i) ==
    /\ pc[i] = "build_points"
    /\ traffic_points' = [traffic_points EXCEPT ![i] =
                             Some(PointsOf(local[i].pairs))]
    /\ IF variant = "simple" /\ local[i].pairs = <<>>
       THEN Fail(i, "ValueError")
       ELSE pc' = [pc EXCEPT ![i] = "build_scores"] /\ UNCHANGED prep
    /\ UNCHANGED << env, job, calls, files, traffic_scores, kdtree, local, ever_ok, last >>

\* max_traffic = np.percentile(traffic_volumes, 95);
\* self.traffic_scores = np.clip(traffic_volumes / max_traffic, 0, 1).
\* On an empty array (hybrid scorer only) np.percentile either raises or
\* returns nan, depending on the numpy release.
BuildScores(i) ==
    /\ pc[i] = "build_scores"
    /\ IF local[i].pairs = <<>>
       THEN \/ Fail(i, "IndexError") /\ UNCHANGED traffic_scores
            \/ /\ traffic_scores' = [traffic_scores EXCEPT ![i] = Some(<<>>)]
               /\ pc' = [pc EXCEPT ![i] = "build_kdtree"]
               /\ UNCHANGED prep
       ELSE /\ traffic_scores' = [traffic_scores EXCEPT ![i] =
                   Some(Normalize(VolumesOf(local[i].pairs)))]
            /\ pc' = [pc EXCEPT ![i] = "build_kdtree"]
            /\ UNCHANGED prep
    /\ UNCHANGED << env, job, calls, files, traffic_points, kdtree, local, ever_ok, last >>

\* An index constructor that accepts an empty array, as cKDTree does not
BuildKdtreeAny(i) ==
    /\ pc[i] = "build_kdtree"
    /\ kdtree' = [kdtree EXCEPT ![i] = Some([data |-> Get(traffic_points[i])])]
    /\ pc' = [pc EXCEPT ![i] = "save_open"]
    /\ UNCHANGED << env, job, calls, files, traffic_points, traffic_scores, local, prep,
                    ever_ok, last >>

\* self.kdtree = cKDTree(self.traffic_points): an empty array has one
\* dimension, which cKDTree rejects
BuildKdtree(i) ==
    /\ pc[i] = "build_kdtree"
    /\ IF Get(traffic_points[i]) = <<>>
       THEN Fail(i, "ValueError") /\ UNCHANGED kdtree
       ELSE /\ kdtree' = [kdtree EXCEPT ![i] =
                   Some([data |-> Get(traffic_points[i])])]
            /\ pc' = [pc EXCEPT ![i] = "save_open"]
            /\ UNCHANGED prep
    /\ UNCHANGED << env, job, calls, files, traffic_points, traffic_scores, local,
                    ever_ok, last >>

\* open(cache_path, 'wb'): the file exists, empty, from here on
SaveOpen(i) ==
    /\ pc[i] = "save_open"
    /\ files' = [files EXCEPT ![CACHE_FILE] = PickleFile(<<>>)]
    /\ pc' = [pc EXCEPT ![i] = "save_dump"]
    /\ UNCHANGED << env, job, calls, traffic_points, traffic_scores, kdtree, local, prep,
                    ever_ok, last >>

\* open(cache_path, 'wb') raises (directory not writable)
SaveOpenFails(i) ==
    /\ pc[i] = "save_open"
    /\ Fail(i, "OSError")
    /\ UNCHANGED << env, job, calls, files, traffic_points, traffic_scores, kdtree, local,
                    ever_ok, last >>

\* pickle.dump(...) and the close of the file; prepare_data returns
SaveDump(i) ==
    /\ pc[i] = "save_dump"
    /\ files' = [files EXCEPT ![CACHE_FILE] =
                    PickleFile(Dump(Get(traffic_points[i]),
                                    Get(traffic_scores[i]), Get(kdtree[i])))]
    /\ Return(i)
    /\ UNCHANGED << env, job, calls, traffic_points, traffic_scores, kdtree, local, last >>

\* pickle.dump(...) is interrupted (disk full, process killed) after n of
\* the stream's tokens reached the file
SaveDumpFails(i) ==
    /\ pc[i] = "save_dump"
    /\ \E n \in 0..4 :
          files' = [files EXCEPT ![CACHE_FILE] =
                       PickleFile(SubSeq(Dump(Get(traffic_points[i]),
                                              Get(traffic_scores[i]),
                                              Get(kdtree[i])), 1, n))]
    /\ Fail(i, "OSError")
    /\ UNCHANGED << env, job, calls, traffic_points, traffic_scores, kdtree, local,
                    ever_ok, last >>

PrepareStep(i) ==
    \/ PrepareData(i)
    \/ LoadCache(i)
    \/ LoadPoints(i)
    \/ LoadScores(i)
    \/ LoadKdtree(i)
    \/ FetchSimple(i)
    \/ FetchHybrid(i)
    \/ BuildPoints(i)
    \/ BuildScores(i)
    \/ BuildKdtree(i)
    \/ SaveOpen(i)
    \/ SaveOpenFails(i)
    \/ SaveDump(i)
    \/ SaveDumpFails(i)

\* ------------------------------------------------------------------------
\* Queries
\* ------------------------------------------------------------------------
\* A get_traffic_score that keeps the score it computed in place of the
\* nearest point's stored score
GetTrafficScoreCallStoring(i, q, k, max_distance) ==
    /\ LET r == GetTrafficScore(kdtree[i], traffic_scores[i], finiteChecked,
                                q, k, max_distance)
       IN  /\ last' = [inst |-> i, op |-> "get", q |-> q, k |-> k,
                       max_distance |-> max_distance, coords |-> <<>>,
                       status |-> r.status, value |-> r.value,
                       values |-> <<>>]
           /\ traffic_scores' =
                 IF r.status = "ok" /\ traffic_scores[i] # NoneOpt
                    /\ Get(traffic_scores[i]) # <<>>
                 THEN [traffic_scores EXCEPT ![i] =
                          Some([Get(traffic_scores[i]) EXCEPT ![1] = r.value])]
                 ELSE traffic_scores
    /\ UNCHANGED << env, job, files, pc, traffic_points, kdtree, local, prep,
                    ever_ok >>

\* A get_traffic_score that smooths its score with the score of the call
\* before it
GetTrafficScoreCallSmoothed(i, q, k, max_distance) ==
    /\ LET r == GetTrafficScore(kdtree[i], traffic_scores[i], finiteChecked,
                                q, k, max_distance)
           smoothed == IF r.status = "ok" /\ last.op = "get"
                          /\ last.status = "ok"
                       THEN RDiv(RAdd(r.value, last.value), <<2, 1>>)
                       ELSE r.value
       IN  last' = [inst |-> i, op |-> "get", q |-> q, k |-> k,
                    max_distance |-> max_distance, coords |-> <<>>,
                    status |-> r.status, value |-> smoothed, values |-> <<>>]
    /\ UNCHANGED << env, job, files, pc, traffic_points, traffic_scores, kdtree,
                    local, prep, ever_ok >>

\* scorer.get_traffic_score(lon, lat, k, max_distance); the history calls is
\* the observer's, and each specification says what it records
GetTrafficScoreCall(i, q, k, max_distance) ==
    /\ LET r == GetTrafficScore(kdtree[i], traffic_scores[i], finiteChecked,
                                q, k, max_distance)
       IN  last' = [inst |-> i, op |-> "get", q |-> q, k |-> k,
                    max_distance |-> max_distance, coords |-> <<>>,
                    status |-> r.status, value |-> r.value, values |-> <<>>]
    /\ UNCHANGED << env, job, files, pc, traffic_points, traffic_scores, kdtree,
                    local, prep, ever_ok >>

\* scorer.batch_score(coordinates)
BatchScoreCall(i, coords) ==
    /\ LET r == BatchScore(kdtree[i], traffic_scores[i], finiteChecked,
                           coords, DefaultMaxDistance)
       IN  last' = [inst |-> i, op |-> "batch", q |-> NonFinite,
                    k |-> DefaultK, max_distance |-> DefaultMaxDistance,
                    coords |-> coords, status |-> r.status, value |-> RZero,
                    values |-> r.values]
    /\ UNCHANGED << env, calls, files, pc, traffic_points, traffic_scores,
                    kdtree, local, prep, ever_ok >>

\* ------------------------------------------------------------------------
\* Inputs.  The coordinates used lie on the line through (0,0) and (3,4),
\* so that every distance (a multiple of 5 units) is exact.
\* ------------------------------------------------------------------------
Point(p) == [type |-> "Point", pts |-> <<p>>]

Line(a, b) == [type |-> "LineString", pts |-> <<a, b>>]

MultiLine(a, b) == [type |-> "MultiLineString", pts |-> <<a, b>>]

Polygon(a, b, c) == [type |-> "Polygon", pts |-> <<a, b, c>>]

Rec(g, props) == [geometry |-> g, props |-> props]

\* The records an observation source is made of
Catalogue == <<
    Rec(Polygon(<<0, 0>>, <<6, 8>>, <<3, 4>>), [YEAR2024 |-> Num(50)]),
    Rec(Point(<<0, 0>>), [YEAR2024 |-> Num(100)]),
    Rec(Point(<<3, 4>>), [YEAR2024 |-> VNaN, YEAR2023 |-> Num(10)]),
    Rec(Line(<<3, 4>>, <<9, 12>>), [YEAR2024 |-> Num(0), AADT |-> Num(40)]),
    Rec(Point(<<6, 8>>), [YEAR2024 |-> VStr, Count |-> VNone]),
    Rec(Point(<<0, 0>>), [YEAR2023 |-> Num(-5), ADT |-> Num(10)]),
    Rec(MultiLine(<<0, 0>>, <<6, 8>>), [AADT |-> VStr, Volume |-> Num(20)]),
    Rec(NoGeom, [YEAR2024 |-> Num(70)]),
    Rec(Point(<<0, 0>>), [YEAR2001 |-> Num(1000), AADT |-> Num(1)]),
    Rec(Point(<<12, 16>>), [YEAR2024 |-> Num(100)]),
    Rec(Point(<<6, 8>>), [YEAR2024 |-> Num(100)])
>>

\* The segments a road-network source is made of
RoadCatalogue == <<
    [geometry |-> Line(<<0, 0>>, <<6, 8>>), highway |-> <<"motorway">>],
    [geometry |-> Line(<<3, 4>>, <<9, 12>>), highway |-> <<>>],
    [geometry |-> Line(<<0, 0>>, <<0, 0>>),
     highway |-> <<"residential", "primary">>],
    [geometry |-> Line(<<12, 16>>, <<12, 16>>), highway |-> <<"bridleway">>]
>>

\* Observation sources: the runs of at most MaxRecs consecutive records
Windows ==
    {SubSeq(Catalogue, a, Min(a + n - 1, Len(Catalogue))) :
        a \in 1..Len(Catalogue), n \in 0..MaxRecs}

\* Observation sources that start at the first record
Prefixes ==
    {SubSeq(Catalogue, 1, n) : n \in 0..Min(MaxRecs, Len(Catalogue))}

RoadSets ==
    {SubSeq(RoadCatalogue, 1, n) : n \in 0..Min(MaxRoads, Len(RoadCatalogue))}

LinePoints == {<<0, 0>>, <<3, 4>>, <<6, 8>>, <<12, 16>>}

QueryCoords == {Finite(p) : p \in LinePoints} \cup {NonFinite}

RECURSIVE SeqsUpTo(_, _)
SeqsUpTo(S, n) ==
    IF n = 0 THEN {<<>>}
    ELSE LET shorter == SeqsUpTo(S, n - 1)
         IN  shorter \cup {Append(t, x) : t \in shorter, x \in S}

NoFiles == [name \in FileNames |-> Absent]

NoNet == [direct |-> Absent, api |-> Absent, osm |-> Absent]

\* ------------------------------------------------------------------------
\* Initial states: the instances as __init__ leaves them, over a data_dir
\* that holds no cache yet
\* ------------------------------------------------------------------------
InitInstances ==
    /\ pc = [i \in Instances |-> "idle"]
    /\ traffic_points = [i \in Instances |-> NoneOpt]
    /\ traffic_scores = [i \in Instances |-> NoneOpt]
    /\ kdtree = [i \in Instances |-> NoneOpt]
    /\ local = [i \in Instances |-> NoLocal]
    /\ prep = [i \in Instances |-> "none"]
    /\ ever_ok = [i \in Instances |-> FALSE]
    /\ last = NoCall
    /\ calls = <<>>
    /\ job = NoJob

\* The simple scorer over a source file that is missing, unreadable or one
\* of the sources
InitSimple(sources) ==
    /\ variant = "simple"
    /\ net = NoNet
    /\ \E f \in {Absent, Garbage} \cup {GeoJson(d) : d \in sources} :
          files = [NoFiles EXCEPT ![TRAFFIC_FILE] = f]

\* The hybrid scorer: the observations d sit in a manual file or behind one
\* of the two download methods, the roads r behind the OSM download
InitHybrid(sources, roadsets, places) ==
    /\ variant = "hybrid"
    /\ \E d \in sources, r \in roadsets, place \in places :
       \E osm \in {Absent, GeoJson(r)} :
          /\ files =
               [NoFiles EXCEPT
                  ![TRAFFIC_FILE] =
                      IF place = "geojson" THEN GeoJson(d) ELSE Absent,
                  !["brampton_traffic.csv"] =
                      IF place = "csv" THEN Csv(d, TRUE)
                      ELSE IF place = "csv_nolatlon" THEN Csv(d, FALSE)
                      ELSE Absent]
          /\ net = [direct |-> IF place = "direct" THEN GeoJson(d) ELSE Absent,
                    api |-> IF place = "api" THEN GeoJson(d)
                            ELSE IF place = "api_garbage" THEN Garbage
                            ELSE Absent,
                    osm |-> osm]

Places == {"none", "geojson", "csv", "csv_nolatlon", "direct", "api",
           "api_garbage"}

\* ------------------------------------------------------------------------
\* Spec: the life cycle of two instances over one data_dir, with readers
\* querying an instance at any moment
\* ------------------------------------------------------------------------
LifeSources == {d \in Prefixes : Len(d) \in {1, MaxRecs}}

LifeRoads == {r \in RoadSets : Len(r) \in {0, MaxRoads}}

LifeBatches == {<<>>, <<Finite(<<0, 0>>)>>}

Init ==
    /\ InitInstances
    /\ finiteChecked = TRUE
    /\ \/ InitSimple(LifeSources)
       \/ InitHybrid(LifeSources, LifeRoads, {"none", "geojson", "api_garbage"})

Query(i) ==
    \/ /\ GetTrafficScoreCall(i, Finite(<<0, 0>>), MaxK, DefaultMaxDistance)
       /\ UNCHANGED calls
    \/ \E coords \in LifeBatches : BatchScoreCall(i, coords) /\ UNCHANGED job

Next == \E i \in Instances : PrepareStep(i) \/ Query(i)

Spec == Init /\ [][Next]_vars

\* ------------------------------------------------------------------------
\* SpecQuery: one instance, called sequentially, over every source and with
\* every query input of the bounds; one query is explored after each
\* prepare_data call (Spec explores queries that follow queries)
\* ------------------------------------------------------------------------
MaxDistances == {0, 5, DefaultMaxDistance}

BatchCoords == {Finite(<<0, 0>>), Finite(<<12, 16>>), NonFinite}

Batches == SeqsUpTo(BatchCoords, MaxBatch)

InitQuery ==
    /\ InitInstances
    /\ finiteChecked \in BOOLEAN
    /\ \/ InitSimple(Windows)
       \/ InitHybrid(Prefixes, RoadSets, {"direct"})

QueryAny(i) ==
    /\ pc[i] = "idle"
    /\ last.op = "none"
    /\ \/ \E q \in QueryCoords, k \in 1..MaxK, d \in MaxDistances :
             GetTrafficScoreCall(i, q, k, d) /\ UNCHANGED calls
       \/ \E coords \in Batches : BatchScoreCall(i, coords) /\ UNCHANGED job

NextQuery == PrepareStep("a") \/ QueryAny("a")

SpecQuery == InitQuery /\ [][NextQuery]_vars

\* ------------------------------------------------------------------------
\* SpecStale: one instance over a data_dir whose observation file is replaced
\* and whose cache file is deleted between calls
\* ------------------------------------------------------------------------
StaleSources == {SubSeq(Catalogue, 2, 3), SubSeq(Catalogue, 9, 10)}

InitStale ==
    /\ InitInstances
    /\ finiteChecked = TRUE
    /\ \/ InitSimple(StaleSources)
       \/ InitHybrid(StaleSources, {SubSeq(RoadCatalogue, 1, 1)}, {"geojson"})

\* The operator replaces brampton_traffic.geojson by newer observations, or
\* deletes it
ChangeSource ==
    /\ pc["a"] = "idle"
    /\ \E f \in {Absent} \cup {GeoJson(d) : d \in StaleSources} :
          files' = [files EXCEPT ![TRAFFIC_FILE] = f]
    /\ files' # files
    /\ UNCHANGED << env, job, calls, pc, traffic_points, traffic_scores, kdtree, local,
                    prep, ever_ok, last >>

\* The operator deletes the cache file
RemoveCache ==
    /\ pc["a"] = "idle"
    /\ Exists(files[CACHE_FILE])
    /\ files' = [files EXCEPT ![CACHE_FILE] = Absent]
    /\ UNCHANGED << env, job, calls, pc, traffic_points, traffic_scores, kdtree, local,
                    prep, ever_ok, last >>

NextStale ==
    \/ PrepareStep("a")
    \/ ChangeSource
    \/ RemoveCache
    \/ /\ GetTrafficScoreCall("a", Finite(<<0, 0>>), 2, DefaultMaxDistance)
       /\ UNCHANGED calls

SpecStale == InitStale /\ [][NextStale]_vars

\* ------------------------------------------------------------------------
\* SpecRepeat: get_traffic_score calls recorded with the index state they
\* read, before, during and after the calls of prepare_data
\* ------------------------------------------------------------------------
RepeatCoords == {Finite(<<0, 0>>), Finite(<<12, 16>>)}

RepeatKs == {2}

\* What one call read and returned
CallRecord(i, call) ==
    [q |-> call.q, k |-> call.k, max_distance |-> call.max_distance,
     kdtree |-> kdtree[i], traffic_scores |-> traffic_scores[i],
     status |-> call.status, value |-> call.value]

\* A get_traffic_score call, recorded
RepeatQuery(i) ==
    /\ Len(calls) < MaxCalls
    /\ \E q \in RepeatCoords, k \in RepeatKs :
          GetTrafficScoreCall(i, q, k, DefaultMaxDistance)
    /\ calls' = Append(calls, CallRecord(i, last'))

NextRepeat == PrepareStep("a") \/ RepeatQuery("a")

SpecRepeat == InitStale /\ [][NextRepeat]_vars

\* ------------------------------------------------------------------------
\* SpecVolume: the extraction of one Point record, over every assignment of
\* a value kind to the first and last field of each list
\* ------------------------------------------------------------------------
VolumeFields == <<"YEAR2024", "YEAR2023", "YEAR2000", "AADT", "Count">>

\* The values a field takes: a positive number that names the field, zero, a
\* negative number, NaN, None, a non-numeric string
FieldValues(n) == {Num(10 * n), Num(0), Num(-5), VNaN, VNone, VStr}

\* The records over a set of the fields
VolumeRows ==
    UNION {[{VolumeFields[n] : n \in S} ->
               UNION {FieldValues(n) : n \in 1..Len(VolumeFields)}] :
             S \in SUBSET (1..Len(VolumeFields))}

\* Every field of the record holds one of its own values
OwnValues(props) ==
    \A n \in 1..Len(VolumeFields) :
        VolumeFields[n] \in DOMAIN props
            => props[VolumeFields[n]] \in FieldValues(n)

InitVolume ==
    /\ InitInstances
    /\ finiteChecked = TRUE
    /\ \E props \in VolumeRows :
          /\ OwnValues(props)
          /\ \/ /\ variant = "simple"
                /\ net = NoNet
                /\ files = [NoFiles EXCEPT ![TRAFFIC_FILE] =
                               GeoJson(<<Rec(Point(<<3, 4>>), props)>>)]
             \/ /\ variant = "hybrid"
                /\ net = [NoNet EXCEPT !.osm = GeoJson(<<>>)]
                /\ files = [NoFiles EXCEPT ![TRAFFIC_FILE] =
                               GeoJson(<<Rec(Point(<<3, 4>>), props)>>)]

NextVolume == PrepareData("a") \/ FetchSimple("a") \/ FetchHybrid("a")

SpecVolume == InitVolume /\ [][NextVolume]_vars

\* ------------------------------------------------------------------------
\* SpecRoads: a scorer built over three observations where OpenStreetMap
\* answers with a road network of at most MaxRoads segments, over every
\* classification; only the hybrid scorer asks for it
\* ------------------------------------------------------------------------
RoadLabels == <<
    <<"motorway">>, <<"trunk">>, <<"primary">>, <<"secondary">>,
    <<"tertiary">>, <<"residential">>, <<"unclassified">>, <<>>,
    <<"bridleway">>, <<"residential", "primary">>, <<"service", "trunk">>
>>

\* The segment of classification n; each has its own centroid
RoadOf(n) ==
    [geometry |-> Line(<<0, 0>>, <<2 * n, 4 * n>>), highway |-> RoadLabels[n]]

RoadNetworks ==
    SeqsUpTo({RoadOf(n) : n \in 1..Len(RoadLabels)}, MaxRoads) \ {<<>>}

InitRoads ==
    /\ InitInstances
    /\ finiteChecked = TRUE
    /\ variant \in {"simple", "hybrid"}
    /\ files = [NoFiles EXCEPT ![TRAFFIC_FILE] =
                   GeoJson(SubSeq(Catalogue, 2, 4))]
    /\ \E r \in RoadNetworks : net = [NoNet EXCEPT !.osm = GeoJson(r)]

NextRoads == PrepareStep("a")

SpecRoads == InitRoads /\ [][NextRoads]_vars

\* ------------------------------------------------------------------------
\* SpecDownload: the hybrid scorer's fetch over every combination of manual
\* files and download answers; each source holds records of its own
\* ------------------------------------------------------------------------
\* The records of manual file n (Point records, as a CSV gives), of the
\* direct URL and of the API
ManualData(n) == <<Catalogue[<<2, 3, 6, 9>>[n]]>>

DirectData == SubSeq(Catalogue, 10, 11)

ApiData == SubSeq(Catalogue, 3, 4)

\* What manual file n can hold
ManualContents(n) ==
    IF IsCsvName(manual_files[n])
    THEN {Absent, Garbage, Csv(ManualData(n), TRUE), Csv(ManualData(n), FALSE)}
    ELSE {Absent, Garbage, GeoJson(ManualData(n))}

InitDownload ==
    /\ InitInstances
    /\ finiteChecked = TRUE
    /\ variant = "hybrid"
    /\ \E m \in [1..Len(manual_files) -> {Absent, Garbage}
                     \cup UNION {ManualContents(n) : n \in 1..Len(manual_files)}] :
          /\ \A n \in 1..Len(manual_files) : m[n] \in ManualContents(n)
          /\ files = [name \in FileNames |->
                        IF \E n \in 1..Len(manual_files) : manual_files[n] = name
                        THEN m[CHOOSE n \in 1..Len(manual_files) :
                                   manual_files[n] = name]
                        ELSE Absent]
    /\ \E direct \in {Absent, Garbage, GeoJson(DirectData)},
          api \in {Absent, Garbage, GeoJson(ApiData)} :
          net = [direct |-> direct, api |-> api,
                 osm |-> GeoJson(SubSeq(RoadCatalogue, 1, 1))]

NextDownload == PrepareData("a") \/ FetchHybrid("a")

SpecDownload == InitDownload /\ [][NextDownload]_vars

\* ------------------------------------------------------------------------
\* SpecCsv: add_traffic_scores_to_csv, run up to twice over one data_dir and
\* one output path, each run with a scorer of its own
\* ------------------------------------------------------------------------
CsvCoords == {Finite(<<0, 0>>), NonFinite}

\* The input CSVs: a header and at most MaxRows (lon, lat) rows
CsvInputs == SeqsUpTo(CsvCoords, MaxRows)

ChunkSizes == {1, 2}

\* Observation sources of the run: five entries, two entries, or no file
CsvSources == {SubSeq(Catalogue, 2, 7), SubSeq(Catalogue, 2, 3)}

InitCsv ==
    /\ InitInstances
    /\ finiteChecked = TRUE
    /\ variant = "simple"
    /\ net = NoNet
    /\ \E f \in {Absent} \cup {GeoJson(d) : d \in CsvSources} :
          files = [NoFiles EXCEPT ![TRAFFIC_FILE] = f]

\* scorer = SimpleBramptonTrafficScorer(): the run takes a fresh instance
JobStart ==
    /\ job.pc \in {"off", "done", "raised"}
    /\ \E i \in Instances :
          /\ prep[i] = "none"
          /\ i = "b" => prep["a"] # "none"
          /\ \E rows \in CsvInputs, cs \in ChunkSizes :
                job' = [NoJob EXCEPT !.pc = "prepare", !.inst = i,
                                     !.rows = rows, !.chunk_size = cs,
                                     !.output = job.output]
    /\ UNCHANGED << env, calls, files, pc, traffic_points, traffic_scores,
                    kdtree, local, prep, ever_ok, last >>

\* scorer.prepare_data(), statement by statement
JobPrepare ==
    /\ job.pc = "prepare"
    /\ prep[job.inst] \in {"none", "running"}
    /\ \/ PrepareData(job.inst)
       \/ LoadCache(job.inst)
       \/ LoadPoints(job.inst)
       \/ LoadScores(job.inst)
       \/ LoadKdtree(job.inst)
       \/ FetchSimple(job.inst)
       \/ BuildPoints(job.inst)
       \/ BuildScores(job.inst)
       \/ BuildKdtree(job.inst)
       \/ SaveOpen(job.inst)
       \/ SaveOpenFails(job.inst)
       \/ SaveDump(job.inst)
       \/ SaveDumpFails(job.inst)

\* prepare_data returned or raised; total_rows = lines of the file - 1
JobCount ==
    /\ job.pc = "prepare"
    /\ pc[job.inst] = "idle"
    /\ prep[job.inst] \notin {"none", "running"}
    /\ job' = IF prep[job.inst] = "ok"
              THEN [job EXCEPT !.pc = "loop", !.total_rows = Len(job.rows)]
              ELSE [job EXCEPT !.pc = "raised", !.error = prep[job.inst],
                               !.at = "prepare_data"]
    /\ UNCHANGED << env, calls, files, pc, traffic_points, traffic_scores,
                    kdtree, local, prep, ever_ok, last >>

\* chunk.to_csv(output_csv, mode, header, index=False)
WriteChunk(output, first_chunk, written) ==
    IF first_chunk
    THEN [exists |-> TRUE, headers |-> 1, rows |-> written]
    ELSE [exists |-> TRUE, headers |-> output.headers,
          rows |-> output.rows \o written]

\* One pass of the loop body over the chunk: batch_score, the write, the
\* counters, the progress line.  pd.read_csv(..., chunksize) hands out one
\* empty chunk for a file with a header and no data row, and then
\* rows_processed / total_rows is 0 / 0.
JobChunk ==
    /\ job.pc = "loop"
    /\ job.pos < Len(job.rows) \/ (job.rows = <<>> /\ job.first_chunk)
    /\ LET hi == Min(job.pos + job.chunk_size, Len(job.rows))
           chunk == SubSeq(job.rows, job.pos + 1, hi)
       IN  /\ BatchScoreCall(job.inst, chunk)
           /\ LET written == [j \in 1..Len(chunk) |->
                                 [coord |-> chunk[j],
                                  score |-> last'.values[j]]]
                  out == WriteChunk(job.output, job.first_chunk, written)
              IN  job' =
                    IF last'.status # "ok"
                    THEN [job EXCEPT !.pc = "raised", !.error = last'.status,
                                     !.at = "batch_score"]
                    ELSE IF job.total_rows = 0
                    THEN [job EXCEPT !.pc = "raised", !.output = out,
                                     !.error = "ZeroDivisionError",
                                     !.at = "progress_pct"]
                    ELSE [job EXCEPT !.output = out, !.pos = hi,
                                     !.rows_processed = @ + Len(chunk),
                                     !.first_chunk = FALSE]

\* The loop is over; the summary divides by rows_processed
JobFinish ==
    /\ job.pc = "loop"
    /\ job.pos = Len(job.rows)
    /\ ~job.first_chunk
    /\ job' = IF job.rows_processed = 0
              THEN [job EXCEPT !.pc = "raised", !.error = "ZeroDivisionError",
                               !.at = "summary"]
              ELSE [job EXCEPT !.pc = "done"]
    /\ UNCHANGED << env, calls, files, pc, traffic_points, traffic_scores,
                    kdtree, local, prep, ever_ok, last >>

NextCsv == JobStart \/ JobPrepare \/ JobCount \/ JobChunk \/ JobFinish

SpecCsv == InitCsv /\ [][NextCsv]_vars

\* ========================================================================
\* Claims
\* ========================================================================
Prepared(i) == kdtree[i] # NoneOpt

\* Number of indexed points of instance i
NPoints(i) == Len(Get(kdtree[i]).data)

InUnit(v) == RLe(RZero, v) /\ RLe(v, ROne)

RSub(a, b) == RAdd(a, <<-b[1], b[2]>>)

RAbs(a) == <<Abs(a[1]), a[2]>>

\* The last call is a get_traffic_score call on a prepared instance with a
\* finite coordinate.  Under SpecQuery the fields of the instance are those
\* the call read: prepare_data, the only writer, clears last when it starts.
GetOnPrepared ==
    /\ last.op = "get"
    /\ Prepared(last.inst)
    /\ traffic_scores[last.inst] # NoneOpt
    /\ last.q.fin

\* Reference definitions of the interpolation, stated over sets of indices
\* and independent of the neighbour list the model's query builds
RefData == Get(kdtree[last.inst]).data

RefScores == Get(traffic_scores[last.inst])

RefDist(i) == Dist(RefData[i], last.q.p)

RefBefore(i, j) ==
    RefDist(i) < RefDist(j) \/ (RefDist(i) = RefDist(j) /\ i < j)

\* The k nearest indexed points (all of them when there are fewer than k)
RefNearest(k) ==
    {i \in 1..Len(RefData) :
        Cardinality({j \in 1..Len(RefData) : RefBefore(j, i)}) < k}

\* Distance of the nearest indexed point
RefNearestDistance ==
    CHOOSE d \in {RefDist(i) : i \in 1..Len(RefData)} :
        \A i \in 1..Len(RefData) : d <= RefDist(i)

RECURSIVE RefWeightSum(_)
RefWeightSum(S) ==
    IF S = {} THEN RZero
    ELSE LET i == CHOOSE x \in S : TRUE
         IN  RAdd(<<1, RefDist(i) + Epsilon>>, RefWeightSum(S \ {i}))

RECURSIVE RefScoreSum(_)
RefScoreSum(S) ==
    IF S = {} THEN RZero
    ELSE LET i == CHOOSE x \in S : TRUE
         IN  RAdd(RMul(RefScores[i], <<1, RefDist(i) + Epsilon>>),
                  RefScoreSum(S \ {i}))

\* sum(score_i / (d_i + eps)) / sum(1 / (d_i + eps)) over the points S
RefIDW(S) == RDiv(RefScoreSum(S), RefWeightSum(S))

\* C1 (as stated): a query call on an idle instance none of whose
\* prepare_data calls has returned normally fails with RuntimeError, returns
\* no score and changes nothing of the instance.
C1_NotPreparedUntilSuccess ==
    [][(/\ last' # last
        /\ last'.op # "none"
        /\ last'.op = "batch" => last'.coords # <<>>
        /\ pc[last'.inst] = "idle"
        /\ ~ever_ok[last'.inst])
          => /\ last'.status = "RuntimeError"
             /\ last'.values = <<>>
             /\ UNCHANGED << traffic_points, traffic_scores, kdtree, pc,
                             prep >>]_vars

\* C3 (as stated): the cache path either does not exist or holds a complete,
\* loadable triple, at every moment.
C3_CacheAllOrNothing ==
    ~Exists(files[CACHE_FILE]) \/ Loadable(files[CACHE_FILE])

\* C4 (as stated): a prepare_data that finds a cache file it cannot
\* deserialize goes on to rebuild from the source instead of failing.
C4_CorruptCacheRebuilt ==
    [][\A i \in Instances :
          (/\ pc[i] = "load"
           /\ pc'[i] # "load"
           /\ Exists(files[CACHE_FILE])
           /\ ~Loadable(files[CACHE_FILE]))
             => /\ pc'[i] = "fetch"
                /\ prep'[i] = "running"]_vars

C5_KClampedOrControlled ==
    (GetOnPrepared /\ prep[last.inst] = "ok" /\ last.k > NPoints(last.inst))
        => \/ last.status = "ok" /\ InUnit(last.value)
           \/ last.status \in {"NoData", "InsufficientPoints"}

\* C6 (as stated): in a batch on a prepared scorer where one coordinate's
\* own query fails and another's succeeds, batch_score still returns, with
\* one entry per coordinate.
C6_BatchSurvivesFailure ==
    LET i == last.inst
        alone(c) == GetTrafficScore(kdtree[i], traffic_scores[i],
                                    finiteChecked, c, DefaultK,
                                    DefaultMaxDistance)
    IN  (/\ last.op = "batch"
         /\ Prepared(i)
         /\ prep[i] = "ok"
         /\ \E j \in 1..Len(last.coords) : alone(last.coords[j]).status = "ok"
         /\ \E j \in 1..Len(last.coords) : alone(last.coords[j]).status # "ok")
            => /\ last.status = "ok"
               /\ Len(last.values) = Len(last.coords)

\* C7 (as stated): every query with k >= 1 on a prepared scorer returns;
\* the value is 0.0 exactly when the nearest point is farther than
\* max_distance, and the weighted average of the k nearest otherwise.
C7_CutoffOrInterpolated ==
    (GetOnPrepared /\ prep[last.inst] = "ok" /\ last.k >= 1)
        => /\ last.status = "ok"
           /\ (last.value = RZero) <=> (RefNearestDistance > last.max_distance)
           /\ (RefNearestDistance <= last.max_distance)
                 => last.value = Clip(RefIDW(RefNearest(last.k)))

RefCoincident == {i \in 1..Len(RefData) : RefData[i] = last.q.p}

RECURSIVE RefSlack(_)
RefSlack(S) ==
    IF S = {} THEN RZero
    ELSE LET i == CHOOSE x \in S : TRUE
         IN  RAdd(<<Epsilon, RefDist(i) + Epsilon>>, RefSlack(S \ {i}))

C10_ScoreInUnitInterval ==
    (/\ last.op = "get"
     /\ Prepared(last.inst)
     /\ last.status = "ok"
     /\ last.k >= 1
     /\ last.k <= NPoints(last.inst))
        => InUnit(last.value)

\* C10 witness: an interpolated value strictly inside the interval, over an
\* index that holds a score clipped to 1
C10_Witness ==
    /\ GetOnPrepared
    /\ last.status = "ok"
    /\ last.k <= NPoints(last.inst)
    /\ RLt(RZero, last.value)
    /\ RLt(last.value, ROne)
    /\ \E i \in 1..Len(RefScores) : RefScores[i] = ROne

\* The outcome of get_traffic_score(lon, lat), with its defaults, on the j-th
\* coordinate of the last batch
SingleOf(j) ==
    GetTrafficScore(kdtree[last.inst], traffic_scores[last.inst],
                    finiteChecked, last.coords[j], DefaultK,
                    DefaultMaxDistance)

Triple(i) ==
    [traffic_points |-> Get(traffic_points[i]),
     traffic_scores |-> Get(traffic_scores[i]),
     kdtree |-> Get(kdtree[i])]

\* Instance i ended its last prepare_data normally, having built from source
BuiltAndSaved(i) ==
    local[i].how = "source" /\ prep[i] = "ok" /\ pc[i] = "idle"

\* Instance i ended its last prepare_data normally, having loaded the cache
LoadedFromCache(i) ==
    local[i].how = "cache" /\ prep[i] = "ok" /\ pc[i] = "idle"

LoadPcs == {"load", "load_points", "load_scores", "load_kdtree"}

Raised(i) == prep[i] \notin {"none", "running", "ok"}

\* C14 (as stated): once prepare_data has raised on an instance, every query
\* on that instance fails with RuntimeError.
C14_FailureLeavesUnprepared ==
    [][(/\ last' # last
        /\ last'.op # "none"
        /\ last'.op = "batch" => last'.coords # <<>>
        /\ pc[last'.inst] = "idle"
        /\ Raised(last'.inst))
          => last'.status = "RuntimeError"]_vars

\* No manual file can be used and neither download attempt answers
TrafficUnavailable ==
    /\ \A n \in 1..Len(manual_files) :
          ManualFile(files, manual_files[n]).act = "next"
    /\ ~Readable(net.direct)
    /\ ~Readable(net.api)

\* No cached road network and no answer from OpenStreetMap
RoadsUnavailable ==
    /\ ~Exists(files[ROADS_CACHE])
    /\ net.osm.kind # "geojson"

SourceUnavailable ==
    IF variant = "simple" THEN ~Exists(files[TRAFFIC_FILE])
    ELSE TrafficUnavailable \/ RoadsUnavailable

RawRatio(i, v) ==
    RDiv(<<v, 1>>, Percentile95(VolumesOf(local[i].pairs)))

\* C16: after a prepare_data that built from source and returned,
\* traffic_points and traffic_scores have the length of the pair list, entry
\* j of each comes from pair j (its coordinate; its volume over the 95th
\* percentile, clipped), every score lies in [0,1], and the index is built
\* over exactly traffic_points.
C16_BuiltStateAligned ==
    \A i \in Instances :
        BuiltAndSaved(i)
            => LET pairs == local[i].pairs
                   points == Get(traffic_points[i])
                   scores == Get(traffic_scores[i])
               IN  /\ Len(points) = Len(pairs)
                   /\ Len(scores) = Len(pairs)
                   /\ \A j \in 1..Len(pairs) :
                         /\ points[j] = pairs[j].point
                         /\ InUnit(scores[j])
                         /\ scores[j] =
                              IF RLt(ROne, RawRatio(i, pairs[j].volume))
                              THEN ROne
                              ELSE RawRatio(i, pairs[j].volume)
                   /\ Get(kdtree[i]).data = points

\* C16 witness: a built state over at least three observations, one of them
\* an outlier whose ratio is clipped to 1, the others with different scores
\* below 1
C16_Witness ==
    /\ BuiltAndSaved("a")
    /\ Len(local["a"].pairs) >= 3
    /\ \E j, h, g \in 1..Len(local["a"].pairs) :
          /\ RLt(ROne, RawRatio("a", local["a"].pairs[j].volume))
          /\ Get(traffic_scores["a"])[j] = ROne
          /\ RLt(Get(traffic_scores["a"])[h], Get(traffic_scores["a"])[g])
          /\ RLt(Get(traffic_scores["a"])[g], ROne)
          /\ h > g

\* C16, the all-equal distribution: several observations of one volume
C16_AllEqualReached ==
    /\ BuiltAndSaved("a")
    /\ Len(local["a"].pairs) >= 2
    /\ \A j \in 1..Len(local["a"].pairs) :
          /\ local["a"].pairs[j].volume = local["a"].pairs[1].volume
          /\ Get(traffic_scores["a"])[j] = ROne

\* The step is a query call (prepare_data clears last when it starts)
QueryStep == last' # last /\ last'.op # "none"

\* C17: a query, whatever its outcome, leaves kdtree, traffic_points,
\* traffic_scores and every file as they are, and its outcome is the one the
\* call has on those fields alone, whatever queries came before it.
C17_QueriesReadOnly ==
    [][QueryStep
         => /\ UNCHANGED << kdtree, traffic_points, traffic_scores, files >>
            /\ LET i == last'.inst
               IN  IF last'.op = "get"
                   THEN LET r == GetTrafficScore(kdtree[i], traffic_scores[i],
                                                 finiteChecked, last'.q,
                                                 last'.k, last'.max_distance)
                        IN  /\ last'.status = r.status
                            /\ last'.value = r.value
                   ELSE LET r == BatchScore(kdtree[i], traffic_scores[i],
                                            finiteChecked, last'.coords,
                                            DefaultMaxDistance)
                        IN  /\ last'.status = r.status
                            /\ last'.values = r.values]_vars

\* C17 witness: a query returned a score strictly between 0 and 1 while the
\* cache file is in place
C17_Witness ==
    /\ last.op = "get"
    /\ last.status = "ok"
    /\ RLt(RZero, last.value)
    /\ RLt(last.value, ROne)
    /\ Loadable(files[CACHE_FILE])
    /\ kdtree[last.inst] # NoneOpt

\* The three fields of instance i belong to one ScoreSet
Consistent(i) ==
    /\ traffic_points[i] # NoneOpt
    /\ traffic_scores[i] # NoneOpt
    /\ Get(kdtree[i]).data = Get(traffic_points[i])
    /\ Len(Get(traffic_scores[i])) = Len(Get(traffic_points[i]))

\* C18 (as stated): a get_traffic_score call that finds an index finds it
\* paired with the points and scores of the same ScoreSet, at every moment
\* of a running prepare_data.
C18_AtomicSwap ==
    [][(QueryStep /\ last'.op = "get" /\ kdtree[last'.inst] # NoneOpt)
         => Consistent(last'.inst)]_vars

\* The value qualifies as a volume: present, non-null, numeric, positive
Qualifies(val) == val.t = "num" /\ val.v > 0

\* The positions of the list whose field holds a qualifying value
Qualifying(row, fields) ==
    {n \in 1..Len(fields) :
        /\ fields[n] \in DOMAIN row.props
        /\ Qualifies(row.props[fields[n]])}

\* The value of the first qualifying field of the list
FirstQualifying(row, fields) ==
    LET n == CHOOSE n \in Qualifying(row, fields) :
                 \A h \in Qualifying(row, fields) : n <= h
    IN  row.props[fields[n]].v

\* The volumes the record contributes: the first qualifying yearly field,
\* else the first qualifying fallback field, else none
RefVolumes(row) ==
    IF Qualifying(row, year_fields) # {}
    THEN <<FirstQualifying(row, year_fields)>>
    ELSE IF Qualifying(row, fallback_fields) # {}
    THEN <<FirstQualifying(row, fallback_fields)>>
    ELSE <<>>

\* The list of the volumes of the pairs
RECURSIVE VolumeList(_)
VolumeList(pairs) ==
    IF pairs = <<>> THEN <<>>
    ELSE <<Head(pairs).volume>> \o VolumeList(Tail(pairs))

\* C20: the volume extracted for a record is the value of the first yearly
\* field, YEAR2024 down to YEAR2000, that is present, non-null, numeric and
\* positive; failing that, of the first such field of the fallback list;
\* failing that the record gives no observation.  Values that do not
\* qualify neither block later fields nor are used.
C20_VolumeResolution ==
    \A i \in Instances :
        (pc[i] = "build_points" /\ Len(files[TRAFFIC_FILE].recs) = 1)
            => VolumeList(local[i].observations)
                 = RefVolumes(files[TRAFFIC_FILE].recs[1])

\* C20 witness: a zero, a string and a negative number in the yearly fields
\* and a NaN in AADT, and the volume taken is that of Count
C20_Witness ==
    /\ pc["a"] = "build_points"
    /\ Len(files[TRAFFIC_FILE].recs) = 1
    /\ LET props == files[TRAFFIC_FILE].recs[1].props
       IN  /\ DOMAIN props = {VolumeFields[n] : n \in 1..Len(VolumeFields)}
           /\ props["YEAR2024"] = Num(0)
           /\ props["YEAR2023"] = VStr
           /\ props["YEAR2000"] = Num(-5)
           /\ props["AADT"] = VNaN
           /\ Qualifies(props["Count"])
           /\ VolumeList(local["a"].observations) = <<props["Count"].v>>

\* The two recorded calls had the same arguments and read the same index
\* state
SameCall(c, d) ==
    /\ c.q = d.q
    /\ c.k = d.k
    /\ c.max_distance = d.max_distance
    /\ c.kdtree = d.kdtree
    /\ c.traffic_scores = d.traffic_scores

RefMean(pts) ==
    LET n == Len(pts)
        X == [j \in 1..n |-> pts[j][1]]
        Y == [j \in 1..n |-> pts[j][2]]
        Sum[j \in 0..n] == IF j = 0 THEN <<0, 0>>
                           ELSE <<Sum[j - 1][1] + X[j], Sum[j - 1][2] + Y[j]>>
    IN  <<Sum[n][1] \div n, Sum[n][2] \div n>>

\* The record gives an entry: a Point or line geometry and a volume
RefContributes(row) ==
    /\ row.geometry.type \in {"Point", "LineString", "MultiLineString"}
    /\ RefVolumes(row) # <<>>

\* The entry of a record that gives one
RefEntry(row) ==
    [point |-> IF row.geometry.type = "Point" THEN row.geometry.pts[1]
               ELSE RefMean(row.geometry.pts),
     volume |-> RefVolumes(row)[1]]

\* The entries of the first n records, in source order
RECURSIVE RefEntries(_, _)
RefEntries(recs, n) ==
    IF n = 0 THEN <<>>
    ELSE IF RefContributes(recs[n])
         THEN Append(RefEntries(recs, n - 1), RefEntry(recs[n]))
         ELSE RefEntries(recs, n - 1)

\* The observation records instance i built from
SourceRecs == files[TRAFFIC_FILE].recs

\* C21: the real-observation entries of a built ScoreSet are, in source
\* order, one entry per record with a Point geometry (its coordinate) or a
\* line geometry (its centroid) and a positive resolved volume; a record
\* with no geometry, another geometry kind or no positive numeric volume
\* gives no entry.
C21_RealEntries ==
    \A i \in Instances :
        BuiltAndSaved(i)
            => LET ref == RefEntries(SourceRecs, Len(SourceRecs))
                   points == Get(traffic_points[i])
               IN  /\ local[i].observations = ref
                   /\ Len(points) >= Len(ref)
                   /\ SubSeq(points, 1, Len(ref)) = PointsOf(ref)
                   /\ SubSeq(local[i].pairs, 1, Len(ref)) = ref
                   /\ variant = "simple" => Len(points) = Len(ref)

\* C21 witness: a built ScoreSet over a source with a Polygon record, a line
\* record that gives an entry and a Point record without a usable volume
C21_Witness ==
    /\ BuiltAndSaved("a")
    /\ \E a, b, c \in 1..Len(SourceRecs) :
          /\ SourceRecs[a].geometry.type = "Polygon"
          /\ SourceRecs[b].geometry.type = "LineString"
          /\ RefContributes(SourceRecs[b])
          /\ SourceRecs[c].geometry.type = "Point"
          /\ ~RefContributes(SourceRecs[c])
    /\ Len(Get(traffic_points["a"])) >= 3
    /\ Len(local["a"].observations) < Len(SourceRecs)

\* The synthetic volume of a classification label
RefLabelVolume(label) ==
    CASE label = "motorway" -> 50000
      [] label = "trunk" -> 40000
      [] label = "primary" -> 30000
      [] label = "secondary" -> 20000
      [] label = "tertiary" -> 10000
      [] label = "residential" -> 2000
      [] label = "unclassified" -> 5000
      [] OTHER -> 5000

\* The synthetic volume of a segment
RefRoadVolume(road) ==
    IF road.highway = <<>> THEN 5000 ELSE RefLabelVolume(Head(road.highway))

\* The road network instance i built from: what download_road_network
\* cached
SourceRoads == files[ROADS_CACHE].recs

\* C22: in a ScoreSet built by the hybrid scorer every road segment has one
\* synthetic entry, after all real observations and in segment order, at the
\* segment's centroid, with the volume of its classification (5000 when
\* missing or unknown, the first element's when a list), normalized and
\* indexed like the real entries.
C22_RoadAugmentation ==
    \A i \in Instances :
        (BuiltAndSaved(i) /\ variant = "hybrid")
            => LET nobs == Len(local[i].observations)
                   points == Get(traffic_points[i])
                   scores == Get(traffic_scores[i])
               IN  /\ Len(points) = nobs + Len(SourceRoads)
                   /\ Len(scores) = nobs + Len(SourceRoads)
                   /\ Get(kdtree[i]).data = points
                   /\ \A j \in 1..Len(SourceRoads) :
                         LET v == RefRoadVolume(SourceRoads[j])
                         IN  /\ points[nobs + j]
                                  = RefMean(SourceRoads[j].geometry.pts)
                             /\ local[i].pairs[nobs + j].volume = v
                             /\ scores[nobs + j] =
                                  IF RLt(ROne, RawRatio(i, v)) THEN ROne
                                  ELSE RawRatio(i, v)

\* C22 witness: a hybrid ScoreSet over real observations and two segments,
\* one classified by a list and one with an unknown or missing
\* classification
C22_Witness ==
    /\ BuiltAndSaved("a")
    /\ variant = "hybrid"
    /\ Len(local["a"].observations) >= 2
    /\ Len(SourceRoads) = 2
    /\ Len(SourceRoads[1].highway) = 2
    /\ RefRoadVolume(SourceRoads[1]) = 2000
    /\ SourceRoads[2].highway \in {<<>>, <<"bridleway">>}
    /\ Len(Get(traffic_scores["a"])) = Len(local["a"].observations) + 2

\* The neighbours the last call's query found, and their normalized weights
LastNeighbours == KnnQuery(Get(kdtree[last.inst]), last.q.p, last.k)

LastWeights ==
    LET w == Weights(LastNeighbours) IN Scaled(w, RSum(w))

\* The last call returned a score interpolated over its k neighbours
Interpolated ==
    /\ GetOnPrepared
    /\ last.status = "ok"
    /\ RefNearestDistance <= last.max_distance

\* C23: when the nearest neighbour is within max_distance and the call
\* returns, the weights sum to 1, a nearer neighbour never weighs less than
\* a farther one, and the score lies between the least and the greatest
\* score of the k neighbours (so it is their common score when they agree).
C23_WeightsAndBounds ==
    Interpolated
        => LET nb == LastNeighbours
               w == LastWeights
               S == RefNearest(last.k)
           IN  /\ Len(w) = last.k
               /\ RSum(w) = ROne
               /\ \A a, b \in 1..Len(nb) :
                     RefDist(nb[a].i) <= RefDist(nb[b].i) => RLe(w[b], w[a])
               /\ \A a, b \in 1..Len(nb) :
                     RefDist(nb[a].i) < RefDist(nb[b].i) => RLt(w[b], w[a])
               /\ \E lo, hi \in S :
                     /\ \A i \in S : /\ RLe(RefScores[lo], RefScores[i])
                                     /\ RLe(RefScores[i], RefScores[hi])
                     /\ RLe(RefScores[lo], last.value)
                     /\ RLe(last.value, RefScores[hi])
               /\ (\A i, j \in S : RefScores[i] = RefScores[j])
                     => \A i \in S : last.value = RefScores[i]

\* C23 witness: three neighbours at three distances with three scores, and
\* a score strictly between the least and the greatest of them
C23_Witness ==
    /\ Interpolated
    /\ last.k = 3
    /\ LET S == RefNearest(last.k)
       IN  /\ Cardinality({RefDist(i) : i \in S}) = 3
           /\ Cardinality({RefScores[i] : i \in S}) = 3
           /\ \E lo, hi \in S : /\ RLt(RefScores[lo], last.value)
                                /\ RLt(last.value, RefScores[hi])
    /\ RLt(LastWeights[3], LastWeights[1])

\* C23, the agreeing neighbours: two neighbours at different distances with
\* one score, which is the score returned
C23_CommonScoreReached ==
    /\ Interpolated
    /\ last.k = 2
    /\ LET S == RefNearest(last.k)
       IN  /\ Cardinality({RefDist(i) : i \in S}) = 2
           /\ \A i \in S : RefScores[i] = last.value

\* C24 (as stated): whenever kdtree is set, traffic_points and
\* traffic_scores are set and are the arrays the index was built over or
\* loaded with.
C24_IndexImpliesArrays ==
    \A i \in Instances : kdtree[i] # NoneOpt => Consistent(i)

\* Manual file n of the directory fs loads: a GeoJSON name with GeoJSON
\* content, a CSV name with a CSV that has coordinate columns
RefLoads(fs, n) ==
    IF n \in {2, 4} THEN fs[manual_files[n]].kind = "csv"
                         /\ fs[manual_files[n]].latlon
    ELSE fs[manual_files[n]].kind = "geojson"

\* The first manual file that loads
RefFirstManual(fs) ==
    CHOOSE n \in 1..4 : RefLoads(fs, n) /\ \A h \in 1..(n - 1) : ~RefLoads(fs, h)

\* Every file of the download but brampton_traffic.geojson is as it was
RefOthersKept ==
    \A n \in 2..4 : files'[manual_files[n]] = files[manual_files[n]]

\* The step in which instance i runs download_traffic_data
DownloadStep(i) == variant = "hybrid" /\ pc[i] = "fetch" /\ pc'[i] # "fetch"

\* The call returned the records recs
Returned(i, recs) ==
    /\ pc'[i] = "build_points"
    /\ local'[i].observations = Extract(recs)

C25_ManualReached ==
    /\ pc["a"] = "build_points"
    /\ files[manual_files[1]] = Garbage
    /\ files[manual_files[2]] = Csv(ManualData(2), FALSE)
    /\ files[manual_files[3]] = Absent
    /\ local["a"].observations = Extract(ManualData(4))
    /\ net.direct = GeoJson(DirectData)

\* C26 (as stated): when download_traffic_data returns or raises,
\* temp_traffic.geojson does not exist.
C26_TempFileRemoved ==
    [][\A i \in Instances :
          DownloadStep(i) => ~Exists(files'[TEMP_FILE])]_vars

\* The score batch_score gives for one row on the job's scorer
RowScore(coord) ==
    BatchScore(kdtree[job.inst], traffic_scores[job.inst], finiteChecked,
               <<coord>>, DefaultMaxDistance)

\* C27 (as stated): add_traffic_scores_to_csv raises nothing of its own, for
\* any input and chunk size (an input with a header and no data row
\* included), and when it ends the output has the header once and one row
\* per input row, in input order, with the score batch_score gives for the
\* row, and rows_processed is the number of input rows.
C27_CsvJobCompletes ==
    /\ job.pc = "raised" => job.at \in {"prepare_data", "batch_score"}
    /\ job.pc = "done"
          => /\ job.output.exists
             /\ job.output.headers = 1
             /\ job.rows_processed = Len(job.rows)
             /\ Len(job.output.rows) = Len(job.rows)
             /\ \A j \in 1..Len(job.rows) :
                   /\ job.output.rows[j].coord = job.rows[j]
                   /\ RowScore(job.rows[j]).status = "ok"
                   /\ job.output.rows[j].score = RowScore(job.rows[j]).values[1]

\* C27, the completed run: three rows in two chunks over an existing output
C27_CompletedReached ==
    /\ job.pc = "done"
    /\ job.inst = "b"
    /\ Len(job.rows) = 3
    /\ job.chunk_size = 2
    /\ job.output.headers = 1
    /\ Len(job.output.rows) = 3

====
